---- MODULE Spec2Model ----
(***************************************************************************)
(* A model of run.py: the synchronisation of DHCP static leases from a     *)
(* master MikroTik router to slave routers and to WatchYourLAN.            *)
(***************************************************************************)
EXTENDS Integers, Sequences, FiniteSets, TLC

(***************************************************************************)
(* Bounds and value universes                                              *)
(***************************************************************************)
\* Most leases a router holds in the lease-reconciliation specification.
MaxLeases == 2

\* Named DHCP servers; a lease without a server attribute has server "".
Servers == {"dhcp1"}
Addresses == {"10.0.0.5", "10.0.0.9"}
Macs == {"AA:BB", "CC:DD"}
Comments == {"", "pc"}

\* attributes.get('server', '') of a lease line without a server attribute
NoServer == ""
\* a lease line without a mac-address attribute
NoMac == "<no mac-address>"
\* a lease line without an address attribute
NoAddress == "<no address>"
\* a remove command whose find expression has no server clause
NoClause == "<no server clause>"
\* Python's None
None == "<None>"

Scopes == Servers \cup {NoServer}

(***************************************************************************)
(* The export text.  A line is a server declaration or a lease             *)
(* declaration.  The text of a lease line after "lease add" (its raw) is   *)
(* modelled by the record of its attributes: two lines have the same raw   *)
(* exactly when they are the same record.                                  *)
(***************************************************************************)
LeaseLines(addresses, macs, comments) ==
    [kind : {"lease"}, server : Scopes, address : addresses,
     mac : macs, comment : comments]

ServerLine(name) == [kind |-> "server", name |-> name]

\* The state of a router: its DHCP servers and its static leases.
RouterStates(addresses, macs, comments, n) ==
    { r \in [servers : SUBSET Servers,
             leases : SUBSET LeaseLines(addresses, macs, comments)] :
        /\ Cardinality(r.leases) <= n
        /\ \A l \in r.leases : l.server \in r.servers \cup {NoServer}
        /\ \A l1, l2 \in r.leases :
              (l1.server = l2.server /\ l1.address = l2.address) => l1 = l2 }

RECURSIVE SetToSeq(_)
SetToSeq(S) ==
    IF S = {} THEN <<>>
    ELSE LET x == CHOOSE y \in S : TRUE IN <<x>> \o SetToSeq(S \ {x})

\* '/ip dhcp-server export terse': the servers, then the leases.
Export(r) ==
    SetToSeq({ServerLine(n) : n \in r.servers}) \o SetToSeq(r.leases)

(***************************************************************************)
(* get_dhcp_reservations: the export's lines, in order, into               *)
(* reservations[server][address] = lease.                                  *)
(***************************************************************************)
Put(f, k, v) == [x \in DOMAIN f \cup {k} |-> IF x = k THEN v ELSE f[x]]

EmptyMap == [x \in {} |-> x]

ExtractLine(reservations, line) ==
    IF line.kind = "server"
    THEN Put(reservations, line.name, EmptyMap)
    ELSE IF line.address # NoAddress
         THEN LET inner == IF line.server \in DOMAIN reservations
                           THEN reservations[line.server] ELSE EmptyMap
              IN Put(reservations, line.server, Put(inner, line.address, line))
         ELSE reservations

RECURSIVE ExtractLines(_, _)
ExtractLines(lines, reservations) ==
    IF lines = <<>> THEN reservations
    ELSE ExtractLines(Tail(lines), ExtractLine(reservations, Head(lines)))

get_dhcp_reservations(r) == ExtractLines(Export(r), EmptyMap)

(***************************************************************************)
(* State                                                                   *)
(***************************************************************************)
VARIABLES
    master_router,      \* the master router's servers and leases
    router,             \* the servers and leases of the slave router connected to
    slaves,             \* config["slaves"]: the slave hosts, in order
    master,             \* master_reservations
    slave_idx,          \* position of main's loop over the slaves
    slave_host,         \* the slave sync_reservations is working on
    slave_reservations, \* its snapshot, taken when sync_reservations starts
    scopesLeft,         \* master scopes the outer loop has not reached
    server,             \* the scope of the outer loop
    ipsLeft,            \* addresses of that scope the inner loop has not reached
    lastIter,           \* the last inner iteration: its lease and its commands
    sent,               \* commands issued by the current sync_reservations call
    synced,             \* slaves whose sync_reservations call has returned
    missing_servers,    \* the global dict: slave host -> list of servers
    open,               \* clients connected and not closed
    log,                \* what was logged, by kind
    pc,                 \* position in the program
    exit_code,          \* {} while the process runs, then {its exit code}
    pass,               \* which sync_reservations call on the same slave
    wyl_targets,        \* config["watchyourlan"]: the targets, in order
    wyl,                \* the host list of the service being synchronised
    wyl_idx,            \* position of main's loop over the targets
    wyl_hosts,          \* the host list sync_watchyourlan fetched
    wyl_server,         \* the scope of its first loop
    wyl_leasesLeft,     \* master leases its first loop has not reached
    master_macs,        \* the MACs its first loop has collected
    wyl_pos,            \* position of its second loop in wyl_hosts
    wyl_calls,          \* edit calls issued by the current sync_watchyourlan call
    wyl_runs,           \* target -> number of sync_watchyourlan calls on it
    attr_map,           \* an attribute map, as the sequence of its <<key, value>>
    parse_line,         \* the text parse_attributes is called on
    tokens,             \* its tokens not yet looked at, in order
    attributes,         \* the dict parse_attributes is building
    export_lines,       \* the lines of an export, in order
    output,             \* those get_dhcp_reservations has not reached
    extracted           \* the dict get_dhcp_reservations is building

inputVars == <<master_router, slaves>>
syncVars == <<router, slave_host, slave_reservations, scopesLeft, server,
              ipsLeft, lastIter, sent, synced, missing_servers, pass>>
runVars == <<master, slave_idx, open, wyl_idx>>
wylVars == <<wyl_targets, wyl, wyl_hosts, wyl_server, wyl_leasesLeft,
             master_macs, wyl_pos, wyl_calls,
             wyl_runs>>
parseVars == <<attr_map, parse_line, tokens, attributes, export_lines, output,
               extracted>>
vars == <<inputVars, syncVars, runVars, wylVars, parseVars, log, pc, exit_code>>

(***************************************************************************)
(* handle_error and an uncaught exception: both end the process with       *)
(* exit code 1.                                                            *)
(***************************************************************************)
ExitWith(code, what) ==
    /\ pc' = "exited"
    /\ exit_code' = {code}
    /\ log' = log \cup what

handle_error(message) == ExitWith(1, {message})

Uncaught(exception) == ExitWith(1, {exception})

(***************************************************************************)
(* The router's side of a command (RouterOS): remove deletes every lease   *)
(* the find expression matches, add creates the lease.                     *)
(***************************************************************************)
Matches(l, cmd) ==
    /\ cmd.server = NoClause \/ l.server = cmd.server
    /\ IF cmd.key = "address" THEN l.address = cmd.val ELSE l.mac = cmd.val

RouterExec(r, cmd) ==
    IF cmd.op = "remove"
    THEN [r EXCEPT !.leases = {l \in r.leases : ~Matches(l, cmd)}]
    ELSE [r EXCEPT !.leases = r.leases \cup {cmd.raw}]

(***************************************************************************)
(* ssh_command on a list of commands, one outcome per command:             *)
(*   "ok"        the router ran the command;                               *)
(*   "stderr"    the router refused it: the error is logged;               *)
(*   "exception" exec_command raised: handle_error.                        *)
(* The result is the router afterwards, the commands issued, and whether   *)
(* handle_error was called.                                                *)
(***************************************************************************)
CmdOutcomes == {"ok", "stderr", "exception"}

\* ssh_commands giving up on the list at the first command the router refuses
RECURSIVE ssh_commands_stop(_, _, _, _)
ssh_commands_stop(r, cmds, outs, issued) ==
    IF cmds = <<>>
    THEN [router |-> r, issued |-> issued, outs |-> <<>>, fatal |-> FALSE]
    ELSE IF Head(outs) # "ok"
    THEN [router |-> r, issued |-> Append(issued, Head(cmds)),
          outs |-> <<Head(outs)>>, fatal |-> Head(outs) = "exception"]
    ELSE LET rest == ssh_commands_stop(RouterExec(r, Head(cmds)), Tail(cmds),
                                       Tail(outs), Append(issued, Head(cmds)))
         IN [rest EXCEPT !.outs = <<"ok">> \o rest.outs]

RECURSIVE ssh_commands(_, _, _, _)
ssh_commands(r, cmds, outs, issued) ==
    IF cmds = <<>>
    THEN [router |-> r, issued |-> issued, outs |-> <<>>, fatal |-> FALSE]
    ELSE IF Head(outs) = "exception"
    THEN [router |-> r, issued |-> Append(issued, Head(cmds)),
          outs |-> <<"exception">>, fatal |-> TRUE]
    ELSE LET rest == ssh_commands(
                        IF Head(outs) = "ok" THEN RouterExec(r, Head(cmds)) ELSE r,
                        Tail(cmds), Tail(outs), Append(issued, Head(cmds)))
         IN [rest EXCEPT !.outs = <<Head(outs)>> \o rest.outs]

(***************************************************************************)
(* sync_reservations: the commands of one inner iteration                  *)
(***************************************************************************)
\* match_server with the server clause written for every scope
match_server_always(srv) == srv

match_server(srv) == IF srv = "" THEN NoClause ELSE srv

RemoveCmd(srv, key, val) ==
    [op |-> "remove", server |-> match_server(srv), key |-> key, val |-> val]

AddCmd(raw) == [op |-> "add", raw |-> raw]

\* next(...) over the slave scope's leases, in the dict's order: the first
\* address whose lease has the master's MAC, None when there is none, and a
\* KeyError when a lease without mac-address comes before any match.
conflict_ips(slave_server_reservations, master_mac) ==
    LET ips == DOMAIN slave_server_reservations
        hit == {ip \in ips : slave_server_reservations[ip].mac = master_mac}
        bad == {ip \in ips : slave_server_reservations[ip].mac = NoMac}
    IN hit \cup (IF bad # {} THEN {"KeyError"} ELSE {})
           \cup (IF hit = {} /\ bad = {} THEN {None} ELSE {})

\* LeaseCommands with the MAC-matched remove left out where the address is
\* new to the slave
LeaseCommandsNoMacRemove(srv, ip, master_res, slave_server_reservations, conflict_ip) ==
    IF ip \notin DOMAIN slave_server_reservations
    THEN <<AddCmd(master_res)>>
    ELSE IF master_res # slave_server_reservations[ip]
         THEN (IF conflict_ip # None
               THEN <<RemoveCmd(srv, "mac-address", master_res.mac)>> ELSE <<>>)
              \o <<RemoveCmd(srv, "address", ip), AddCmd(master_res)>>
         ELSE <<>>

\* LeaseCommands with the add sent before the removes
LeaseCommandsAddFirst(srv, ip, master_res, slave_server_reservations, conflict_ip) ==
    LET rm_mac == IF conflict_ip # None
                  THEN <<RemoveCmd(srv, "mac-address", master_res.mac)>>
                  ELSE <<>>
    IN IF ip \notin DOMAIN slave_server_reservations
       THEN <<AddCmd(master_res)>> \o rm_mac
       ELSE IF master_res # slave_server_reservations[ip]
            THEN <<AddCmd(master_res)>> \o rm_mac
                    \o <<RemoveCmd(srv, "address", ip)>>
            ELSE <<>>

LeaseCommands(srv, ip, master_res, slave_server_reservations, conflict_ip) ==
    LET rm_mac == IF conflict_ip # None
                  THEN <<RemoveCmd(srv, "mac-address", master_res.mac)>>
                  ELSE <<>>
    IN IF ip \notin DOMAIN slave_server_reservations
       THEN rm_mac \o <<AddCmd(master_res)>>
       ELSE IF master_res # slave_server_reservations[ip]
            THEN rm_mac \o <<RemoveCmd(srv, "address", ip), AddCmd(master_res)>>
            ELSE <<>>

\* lastIter before the first inner iteration of a call
NoIter == [server |-> None, ip |-> None, cmds |-> <<>>, issued |-> <<>>,
           outs |-> <<>>]

(***************************************************************************)
(* sync_reservations, step by step                                         *)
(***************************************************************************)
\* Where the loops stand once the inner loop has `ips` left and the outer
\* loop `scopes`.
LoopPc(ips, scopes) ==
    IF ips # {} THEN "sync_leases"
    ELSE IF scopes # {} THEN "sync_scopes" ELSE "sync_done"

\* slave_reservations = get_dhcp_reservations(client)
SyncStart(outcomes) ==
    /\ pc = "sync_start"
    /\ \E out \in outcomes :
         IF out = "exception"
         THEN /\ handle_error("ssh_exception")
              /\ UNCHANGED <<slave_reservations, scopesLeft, sent, lastIter>>
         ELSE /\ slave_reservations' =
                    IF out = "ok" THEN get_dhcp_reservations(router)
                    ELSE EmptyMap
              /\ scopesLeft' = DOMAIN master
              /\ sent' = <<>>
              /\ lastIter' = NoIter
              /\ pc' = LoopPc({}, DOMAIN master)
              /\ log' = log \cup (IF out = "stderr" THEN {"ssh_stderr"} ELSE {})
              /\ UNCHANGED exit_code
    /\ UNCHANGED <<inputVars, parseVars, runVars, wylVars, router, slave_host, server,
                   ipsLeft, synced, missing_servers, pass>>

\* "if server in slave_reservations or server == ''"
on_slave_always(srv, reservations) == TRUE

on_slave(srv, reservations) == srv \in DOMAIN reservations \/ srv = ""

\* One turn of "for server, master_server_reservations in ...": the scope is
\* on the slave (or is ""), or it is recorded in missing_servers.
SyncServer ==
    /\ pc = "sync_scopes"
    /\ \E s \in scopesLeft :
         /\ scopesLeft' = scopesLeft \ {s}
         /\ IF on_slave(s, slave_reservations)
            THEN /\ server' = s
                 /\ ipsLeft' = DOMAIN master[s]
                 /\ pc' = LoopPc(DOMAIN master[s], scopesLeft \ {s})
                 /\ UNCHANGED missing_servers
            ELSE /\ missing_servers' =
                       Put(missing_servers, slave_host,
                           Append(IF slave_host \in DOMAIN missing_servers
                                  THEN missing_servers[slave_host] ELSE <<>>, s))
                 /\ pc' = LoopPc({}, scopesLeft \ {s})
                 /\ UNCHANGED <<server, ipsLeft>>
    /\ UNCHANGED <<inputVars, parseVars, runVars, wylVars, router, slave_host,
                   slave_reservations, lastIter, sent, synced, pass, log,
                   exit_code>>

\* One turn of "for ip, master_res in ...": its commands, each sent with
\* ssh_command as soon as it is built.
SyncLease(outcomes) ==
    /\ pc = "sync_leases"
    /\ \E ip \in ipsLeft :
         LET master_res == master[server][ip]
             slave_server_reservations ==
                 IF server \in DOMAIN slave_reservations
                 THEN slave_reservations[server] ELSE EmptyMap
         IN \E conflict_ip \in
                  IF master_res.mac = NoMac THEN {"KeyError"}
                  ELSE conflict_ips(slave_server_reservations, master_res.mac) :
              IF conflict_ip = "KeyError"
              THEN /\ Uncaught("KeyError")
                   /\ UNCHANGED <<router, ipsLeft, lastIter, sent>>
              ELSE LET cmds == LeaseCommands(server, ip, master_res,
                                             slave_server_reservations, conflict_ip)
                   IN \E outs \in [1 .. Len(cmds) -> outcomes] :
                        LET done == ssh_commands(router, cmds, outs, <<>>)
                        IN /\ router' = done.router
                           /\ sent' = sent \o done.issued
                           /\ lastIter' = [server |-> server, ip |-> ip,
                                           cmds |-> cmds, issued |-> done.issued,
                                           outs |-> done.outs]
                           /\ ipsLeft' = ipsLeft \ {ip}
                           /\ IF done.fatal
                              THEN handle_error("ssh_exception")
                              ELSE /\ pc' = LoopPc(ipsLeft \ {ip}, scopesLeft)
                                   /\ log' = log \cup
                                        (IF \E i \in 1 .. Len(outs) : outs[i] = "stderr"
                                         THEN {"ssh_stderr"} ELSE {})
                                   /\ UNCHANGED exit_code
    /\ UNCHANGED <<inputVars, parseVars, runVars, wylVars, slave_host, slave_reservations,
                   scopesLeft, server, synced, missing_servers, pass>>

\* `router` when no slave router is connected to
NoRouter == [servers |-> {}, leases |-> {}]

\* The hosts of the slave routers
SlaveHosts == <<"slave1", "slave2", "slave3">>

(***************************************************************************)
(* Lease reconciliation alone: sync_reservations twice on one slave, the   *)
(* router running every command.                                           *)
(***************************************************************************)
Idle ==
    /\ slave_idx = 1
    /\ wyl_idx = 1
    /\ open = {}
    /\ synced = {}
    /\ missing_servers = EmptyMap
    /\ log = {}
    /\ exit_code = {}
    /\ slave_reservations = EmptyMap
    /\ scopesLeft = {}
    /\ server = None
    /\ ipsLeft = {}
    /\ lastIter = NoIter
    /\ sent = <<>>
    /\ pass = 1
    /\ wyl_hosts = <<>>
    /\ wyl_server = None
    /\ wyl_leasesLeft = {}
    /\ master_macs = {}
    /\ wyl_pos = 0
    /\ wyl_calls = <<>>

\* parse_attributes is not being followed
NoParse ==
    /\ attr_map = <<>>
    /\ parse_line = <<>>
    /\ tokens = <<>>
    /\ attributes = EmptyMap

\* get_dhcp_reservations is not being followed line by line
NoExtract ==
    /\ export_lines = <<>>
    /\ output = <<>>
    /\ extracted = EmptyMap

InitSync ==
    /\ master_router \in RouterStates(Addresses, Macs, Comments, MaxLeases)
    /\ master = get_dhcp_reservations(master_router)
    /\ router \in RouterStates(Addresses, Macs, Comments, MaxLeases)
    /\ slave_host = SlaveHosts[1]
    /\ pc = "sync_start"
    /\ wyl = <<>>
    /\ slaves = <<SlaveHosts[1]>>
    /\ wyl_targets = <<>>
    /\ wyl_runs = <<>>
    /\ Idle
    /\ NoParse
    /\ NoExtract

\* The first call has returned: the same master is reconciled again.
SecondPass ==
    /\ pc = "sync_done"
    /\ pass = 1
    /\ pass' = 2
    /\ sent' = <<>>
    /\ pc' = "sync_start"
    /\ UNCHANGED <<inputVars, parseVars, runVars, wylVars, router, slave_host,
                   slave_reservations, scopesLeft, server, ipsLeft, lastIter,
                   synced, missing_servers, log, exit_code>>

NextSync ==
    \/ SyncStart({"ok"})
    \/ SyncServer
    \/ SyncLease({"ok"})
    \/ SecondPass

SpecSync == InitSync /\ [][NextSync]_vars

(***************************************************************************)
(* main: the master, then each slave in turn                               *)
(***************************************************************************)
ConnOutcomes == {"ok", "fail"}

\* master_client = ssh_connect(master_router['host'], ...)
ConnectMaster(outcomes) ==
    /\ pc = "main_start"
    /\ \E out \in outcomes :
         IF out = "ok"
         THEN /\ open' = open \cup {"master"}
              /\ pc' = "master_fetch"
              /\ UNCHANGED <<log, exit_code>>
         ELSE /\ handle_error("connect_master_failed")
              /\ UNCHANGED open
    /\ UNCHANGED <<inputVars, parseVars, syncVars, wylVars, master, slave_idx, wyl_idx>>

\* master_reservations = get_dhcp_reservations(master_client), and
\* "if not master_reservations: handle_error(...)"
FetchMaster(outcomes) ==
    /\ pc = "master_fetch"
    /\ \E out \in outcomes :
         IF out = "exception"
         THEN /\ handle_error("ssh_exception")
              /\ UNCHANGED <<master, slave_idx>>
         ELSE LET master_reservations ==
                      IF out = "ok" THEN get_dhcp_reservations(master_router)
                      ELSE EmptyMap
                  logged == IF out = "stderr" THEN {"ssh_stderr"} ELSE {}
              IN /\ master' = master_reservations
                 /\ slave_idx' = 1
                 /\ IF DOMAIN master_reservations = {}
                    THEN ExitWith(1, logged \cup {"no_reservations"})
                    ELSE /\ pc' = "slaves_loop"
                         /\ log' = log \cup logged
                         /\ UNCHANGED exit_code
    /\ UNCHANGED <<inputVars, parseVars, syncVars, wylVars, open, wyl_idx>>

\* slave_client = ssh_connect(slave_router['host'], ...)
\* ConnectSlave with a failed connection logged and the slave skipped
ConnectSlaveSkip(outcomes, routers) ==
    /\ pc = "slaves_loop"
    /\ slave_idx <= Len(slaves)
    /\ \E out \in outcomes :
         IF out = "ok"
         THEN /\ open' = open \cup {slaves[slave_idx]}
              /\ slave_host' = slaves[slave_idx]
              /\ router' \in routers
              /\ pc' = "sync_start"
              /\ UNCHANGED <<log, slave_idx>>
         ELSE /\ log' = log \cup {"connect_slave_failed"}
              /\ slave_idx' = slave_idx + 1
              /\ UNCHANGED <<open, slave_host, router, pc>>
    /\ UNCHANGED <<inputVars, parseVars, wylVars, master, wyl_idx, slave_reservations,
                   scopesLeft, server, ipsLeft, lastIter, sent, synced,
                   missing_servers, pass, exit_code>>

\* `routers` are the states the router connected to may be in.
ConnectSlave(outcomes, routers) ==
    /\ pc = "slaves_loop"
    /\ slave_idx <= Len(slaves)
    /\ \E out \in outcomes :
         IF out = "ok"
         THEN /\ open' = open \cup {slaves[slave_idx]}
              /\ slave_host' = slaves[slave_idx]
              /\ router' \in routers
              /\ pc' = "sync_start"
              /\ UNCHANGED <<log, exit_code>>
         ELSE /\ handle_error("connect_slave_failed")
              /\ UNCHANGED <<open, slave_host, router>>
    /\ UNCHANGED <<inputVars, parseVars, wylVars, master, slave_idx, wyl_idx,
                   slave_reservations, scopesLeft, server, ipsLeft, lastIter,
                   sent, synced, missing_servers, pass>>

\* sync_reservations returns; slave_client.close()
\* The call's local variables are gone, and so is the connection.
CloseSlave ==
    /\ pc = "sync_done"
    /\ synced' = synced \cup {slave_host}
    /\ open' = open \ {slave_host}
    /\ slave_idx' = slave_idx + 1
    /\ pc' = "slaves_loop"
    /\ router' = NoRouter
    /\ slave_reservations' = EmptyMap
    /\ scopesLeft' = {}
    /\ server' = None
    /\ ipsLeft' = {}
    /\ lastIter' = NoIter
    /\ sent' = <<>>
    /\ UNCHANGED <<inputVars, parseVars, wylVars, master, wyl_idx, slave_host,
                   missing_servers, pass, log, exit_code>>

\* master_client.close(), and "if missing_servers: ... sys.exit(2)", and
\* config.get('watchyourlan'), one of `configs`.
AfterSlaves(configs) ==
    /\ pc = "slaves_loop"
    /\ slave_idx > Len(slaves)
    /\ open' = open \ {"master"}
    /\ IF DOMAIN missing_servers # {}
       THEN /\ ExitWith(2, {"missing_servers"})
            /\ UNCHANGED <<wyl_idx, wyl_targets, wyl_runs>>
       ELSE /\ pc' = "wyl_loop"
            /\ wyl_idx' = 1
            /\ wyl_targets' \in configs
            /\ wyl_runs' = [i \in 1 .. Len(wyl_targets') |-> 0]
            /\ UNCHANGED <<log, exit_code>>
    /\ UNCHANGED <<inputVars, parseVars, syncVars, master, slave_idx, wyl, wyl_hosts,
                   wyl_server, wyl_leasesLeft, master_macs, wyl_pos, wyl_calls>>

(***************************************************************************)
(* WatchYourLAN.  A host of the service is a record of its ID, Mac, Name   *)
(* and Known; NoKey stands for a key the JSON object does not have.        *)
(***************************************************************************)
NoKey == "<no key>"

\* str.lower() on the MAC addresses of the model
Lower(mac) ==
    CASE mac = "AA:BB" -> "aa:bb"
      [] mac = "CC:DD" -> "cc:dd"
      [] mac = "EE:FF" -> "ee:ff"
      [] OTHER -> mac

\* urllib.parse.quote on the names of the model
Quote(name) ==
    CASE name = "my pc" -> "my%20pc"
      [] OTHER -> name

\* the service decoding a path segment
Unquote(segment) ==
    CASE segment = "my%20pc" -> "my pc"
      [] OTHER -> segment

\* enc_name = quote(name) if name else "", then "-" when that is empty
EncName(name) == IF Quote(name) = "" THEN "-" ELSE Quote(name)

\* The service's side of GET /api/edit/{id}/{name}[/toggle]: without
\* /toggle the host is renamed, with it its Known flag is flipped.
ServiceEdit(hosts, call) ==
    [i \in DOMAIN hosts |->
       IF hosts[i].ID # call.id THEN hosts[i]
       ELSE IF call.kind = "Rename"
            THEN [hosts[i] EXCEPT !.Name = Unquote(call.name)]
            ELSE [hosts[i] EXCEPT !.Known = ~@]]

\* The service's Known flag of the host with this ID.
KnownInService(hosts, id) ==
    \E i \in DOMAIN hosts : hosts[i].ID = id /\ hosts[i].Known

\* wyl_hosts_by_mac[mac]: of the fetched hosts with this lowercased MAC, the
\* last one.
HostsWithMac(hosts, mac) ==
    {i \in DOMAIN hosts : hosts[i].Mac # NoKey /\ Lower(hosts[i].Mac) = mac}

HostByMac(hosts, mac) ==
    hosts[CHOOSE i \in HostsWithMac(hosts, mac) :
             \A j \in HostsWithMac(hosts, mac) : j <= i]

\* The calls of one turn of the first loop, for a lease whose MAC is the
\* fetched host's: the rename when the names differ, the toggle when the
\* fetched host is not known.
LeaseCalls(res, wyl_host) ==
    LET name == res.comment
        rename == IF wyl_host.Name # name
                  THEN <<[kind |-> "Rename", id |-> wyl_host.ID,
                          name |-> EncName(name)]>>
                  ELSE <<>>
        toggle == IF ~wyl_host.Known
                  THEN <<[kind |-> "MarkKnown", id |-> wyl_host.ID,
                          name |-> EncName(name)]>>
                  ELSE <<>>
    IN rename \o toggle

\* The call of one turn of the second loop: the toggle, for a fetched host
\* that is known and whose MAC no master lease has.
UnmarkCalls(wyl_host, macs) ==
    IF /\ wyl_host.Mac # NoKey
       /\ Lower(wyl_host.Mac) \notin macs
       /\ wyl_host.Known
    THEN <<[kind |-> "UnmarkKnown", id |-> wyl_host.ID,
            name |-> EncName(wyl_host.Name)]>>
    ELSE <<>>

\* The calls of one try block, one outcome per call: "ok", or "exception"
\* (requests.get raised, or the host has no ID): the exception is logged and
\* the rest of the block is skipped.  Each call is issued with the service's
\* Known flag of its host at that moment.
HttpOutcomes == {"ok", "exception"}

RECURSIVE try_calls(_, _, _, _)
try_calls(hosts, calls, outs, issued) ==
    IF calls = <<>>
    THEN [hosts |-> hosts, issued |-> issued, failed |-> FALSE]
    ELSE IF Head(calls).id = NoKey
    THEN [hosts |-> hosts, issued |-> issued, failed |-> TRUE]
    ELSE LET call == [kind |-> Head(calls).kind, id |-> Head(calls).id,
                      name |-> Head(calls).name, out |-> Head(outs),
                      known |-> KnownInService(hosts, Head(calls).id)]
         IN IF Head(outs) = "exception"
            THEN [hosts |-> hosts, issued |-> Append(issued, call),
                  failed |-> TRUE]
            ELSE try_calls(ServiceEdit(hosts, Head(calls)), Tail(calls),
                           Tail(outs), Append(issued, call))

(***************************************************************************)
(* sync_watchyourlan, step by step                                         *)
(***************************************************************************)
MasterLeases(reservations) ==
    UNION {{<<srv, ip>> : ip \in DOMAIN reservations[srv]} :
             srv \in DOMAIN reservations}

\* Where sync_watchyourlan stands once its first loop has `leases` left and
\* its second loop is at `pos` of `hosts`.
WylPc(leases, hosts, pos) ==
    IF leases # {} THEN "wyl_leases"
    ELSE IF pos <= Len(hosts) THEN "wyl_unmark" ELSE "wyl_return"

\* The call, up to the start of the first loop: no URL, or the host list
\* was not fetched, and it returns.  `services` are the host lists the
\* target's service may hold.
WylStart(outcomes, services) ==
    /\ pc = "wyl_loop"
    /\ wyl_idx <= Len(wyl_targets)
    /\ wyl_runs' = [wyl_runs EXCEPT ![wyl_idx] = @ + 1]
    /\ \E out \in outcomes :
         IF wyl_targets[wyl_idx] = "" \/ out = "exception"
         THEN /\ log' = log \cup (IF wyl_targets[wyl_idx] = ""
                                  THEN {"wyl_no_url"} ELSE {"wyl_fetch_failed"})
              /\ wyl_idx' = wyl_idx + 1
              /\ UNCHANGED <<pc, wyl, wyl_hosts, wyl_server, wyl_leasesLeft,
                             master_macs, wyl_pos, wyl_calls>>
         ELSE /\ wyl' \in services
              /\ wyl_hosts' = wyl'
              /\ wyl_server' = None
              /\ wyl_leasesLeft' = MasterLeases(master)
              /\ master_macs' = {}
              /\ wyl_pos' = 1
              /\ wyl_calls' = <<>>
              /\ pc' = WylPc(MasterLeases(master), wyl', 1)
              /\ UNCHANGED <<log, wyl_idx>>
    /\ UNCHANGED <<inputVars, parseVars, syncVars, master, slave_idx, open, wyl_targets,
                   exit_code>>

\* One turn of the first loop, over the master's leases scope by scope.
WylLease(outcomes) ==
    /\ pc = "wyl_leases"
    /\ \E p \in wyl_leasesLeft :
         /\ (\E q \in wyl_leasesLeft : q[1] = wyl_server) => p[1] = wyl_server
         /\ wyl_server' = p[1]
         /\ wyl_leasesLeft' = wyl_leasesLeft \ {p}
         /\ LET res == master[p[1]][p[2]]
                mac == Lower(res.mac)
                after == WylPc(wyl_leasesLeft \ {p}, wyl_hosts, wyl_pos)
            IN IF res.mac = NoMac \/ HostsWithMac(wyl_hosts, mac) = {}
               THEN /\ master_macs' = IF res.mac = NoMac THEN master_macs
                                      ELSE master_macs \cup {mac}
                    /\ pc' = after
                    /\ UNCHANGED <<wyl, wyl_calls, log, exit_code>>
               ELSE IF HostByMac(wyl_hosts, mac).ID = NoKey
               THEN /\ Uncaught("KeyError")
                    /\ master_macs' = master_macs \cup {mac}
                    /\ UNCHANGED <<wyl, wyl_calls>>
               ELSE LET calls == LeaseCalls(res, HostByMac(wyl_hosts, mac))
                    IN \E outs \in [1 .. Len(calls) -> outcomes] :
                         LET done == try_calls(wyl, calls, outs, <<>>)
                         IN /\ wyl' = done.hosts
                            /\ wyl_calls' = wyl_calls \o done.issued
                            /\ master_macs' = master_macs \cup {mac}
                            /\ log' = log \cup (IF done.failed
                                                THEN {"wyl_update_failed"} ELSE {})
                            /\ pc' = after
                            /\ UNCHANGED exit_code
    /\ UNCHANGED <<inputVars, parseVars, syncVars, runVars, wyl_targets, wyl_hosts,
                   wyl_pos, wyl_runs>>

\* One turn of the second loop, over the fetched hosts in order.
WylUnmark(outcomes) ==
    /\ pc = "wyl_unmark"
    /\ LET calls == UnmarkCalls(wyl_hosts[wyl_pos], master_macs)
           after == WylPc({}, wyl_hosts, wyl_pos + 1)
       IN \E outs \in [1 .. Len(calls) -> outcomes] :
            LET done == try_calls(wyl, calls, outs, <<>>)
            IN /\ wyl' = done.hosts
               /\ wyl_calls' = wyl_calls \o done.issued
               /\ log' = log \cup (IF done.failed
                                   THEN {"wyl_unmark_failed"} ELSE {})
               /\ wyl_pos' = wyl_pos + 1
               /\ pc' = after
    /\ UNCHANGED <<inputVars, parseVars, syncVars, runVars, wyl_targets, wyl_hosts,
                   wyl_server, wyl_leasesLeft, master_macs, wyl_runs, exit_code>>

\* sync_watchyourlan returns: its local variables are gone.
WylReturn ==
    /\ pc = "wyl_return"
    /\ pc' = "wyl_loop"
    /\ wyl_idx' = wyl_idx + 1
    /\ wyl_hosts' = <<>>
    /\ wyl_server' = None
    /\ wyl_leasesLeft' = {}
    /\ master_macs' = {}
    /\ wyl_pos' = 0
    /\ wyl_calls' = <<>>
    /\ UNCHANGED <<inputVars, parseVars, syncVars, master, slave_idx, open, wyl_targets,
                   wyl, wyl_runs, log, exit_code>>

\* logger.info("Reservation sync completed successfully."); sys.exit(0)
Finish ==
    /\ pc = "wyl_loop"
    /\ wyl_idx > Len(wyl_targets)
    /\ ExitWith(0, {"completed"})
    /\ UNCHANGED <<inputVars, parseVars, syncVars, runVars, wylVars>>

(***************************************************************************)
(* The presence reconciliation alone: sync_watchyourlan twice on one       *)
(* service, every call reaching it.                                        *)
(***************************************************************************)
MaxWylLeases == 2
MaxHosts == 2

HostIds == <<"h1", "h2", "h3">>

\* Host lists of at most n hosts; the host at position i has the ID
\* HostIds[i], or none when `malformed`.
HostLists(macs, names, n, malformed) ==
    UNION { { hosts \in [1 .. k -> [ID : {HostIds[i] : i \in 1 .. k} \cup
                                         (IF malformed THEN {NoKey} ELSE {}),
                                    Mac : macs, Name : names, Known : BOOLEAN]] :
                \A i \in 1 .. k : hosts[i].ID \in {HostIds[i], NoKey} } :
            k \in 0 .. n }

WylMasterMacs == {"AA:BB", "aa:bb"}
WylHostMacs == {"AA:BB", "EE:FF"}
WylNames == {"", "my pc"}

InitWyl ==
    /\ master_router \in RouterStates(Addresses, WylMasterMacs, WylNames,
                                      MaxWylLeases)
    /\ master = get_dhcp_reservations(master_router)
    /\ wyl_targets = <<"http://wyl">>
    /\ wyl_runs = <<0>>
    /\ wyl \in HostLists(WylHostMacs, WylNames, MaxHosts, FALSE)
    /\ router = NoRouter
    /\ slave_host = None
    /\ pc = "wyl_loop"
    /\ slaves = <<>>
    /\ Idle
    /\ NoParse
    /\ NoExtract

\* The first call has returned: the same master is synchronised again.
SecondRun ==
    /\ pc = "wyl_loop"
    /\ wyl_idx > Len(wyl_targets)
    /\ pass = 1
    /\ pass' = 2
    /\ wyl_idx' = 1
    /\ UNCHANGED <<inputVars, parseVars, master, slave_idx, open, router, slave_host,
                   slave_reservations, scopesLeft, server, ipsLeft, lastIter,
                   sent, synced, missing_servers, wylVars, log, pc, exit_code>>

NextWyl ==
    \/ WylStart({"ok"}, {wyl})
    \/ WylLease({"ok"})
    \/ WylUnmark({"ok"})
    \/ WylReturn
    \/ SecondRun

SpecWyl == InitWyl /\ [][NextWyl]_vars

(***************************************************************************)
(* The whole run                                                           *)
(***************************************************************************)
NumSlaves == 2
NumWyl == 2
MaxRunLeases == 2
MaxRunHosts == 1

RunMacs == {"AA:BB"}
RunRouters == RouterStates(Addresses, RunMacs, Comments, MaxRunLeases)
RunHostMacs == {"AA:BB", "EE:FF"}
RunServices == HostLists(RunHostMacs, Comments, MaxRunHosts, TRUE)
RunServicesWellFormed == HostLists(RunHostMacs, Comments, MaxRunHosts, FALSE)
Urls == {"http://wyl", ""}
WylConfigs == UNION {[1 .. n -> Urls] : n \in 0 .. NumWyl}

Init ==
    /\ master_router \in RunRouters
    /\ master = EmptyMap
    /\ router = NoRouter
    /\ slave_host = None
    /\ wyl = <<>>
    /\ pc = "main_start"
    /\ wyl_targets = <<>>
    /\ wyl_runs = <<>>
    /\ slaves = [i \in 1 .. NumSlaves |-> SlaveHosts[i]]
    /\ Idle
    /\ NoParse
    /\ NoExtract

Next ==
    \/ ConnectMaster(ConnOutcomes)
    \/ FetchMaster(CmdOutcomes)
    \/ ConnectSlave(ConnOutcomes, RunRouters)
    \/ SyncStart(CmdOutcomes)
    \/ SyncServer
    \/ SyncLease(CmdOutcomes)
    \/ CloseSlave
    \/ AfterSlaves(WylConfigs)
    \/ WylStart(HttpOutcomes, RunServices)
    \/ WylLease(HttpOutcomes)
    \/ WylUnmark(HttpOutcomes)
    \/ WylReturn
    \/ Finish

Spec == Init /\ [][Next]_vars

\* The run when every connection is made, every command runs, every request
\* is answered and every host of the services has its ID.
NextReliable ==
    \/ ConnectMaster({"ok"})
    \/ FetchMaster({"ok"})
    \/ ConnectSlave({"ok"}, RunRouters)
    \/ SyncStart({"ok"})
    \/ SyncServer
    \/ SyncLease({"ok"})
    \/ CloseSlave
    \/ AfterSlaves(WylConfigs)
    \/ WylStart({"ok"}, RunServicesWellFormed)
    \/ WylLease({"ok"})
    \/ WylUnmark({"ok"})
    \/ WylReturn
    \/ Finish

SpecReliable == Init /\ [][NextReliable]_vars

(***************************************************************************)
(* parse_attributes.  A text is the sequence of its characters; the        *)
(* characters of the model are a letter, the space, "=", the backslash and *)
(* the double quote.                                                       *)
(***************************************************************************)
DQ == "\""
BS == "\\"

MaxAttrs == 2
MaxKeyLen == 2
MaxValueLen == 2

KeyChars == {"a", "=", " "}
ValueChars == {"a", "=", " ", BS}

Texts(chars, n) == UNION {[1 .. k -> chars] : k \in 0 .. n}

\* Attribute maps in the order of their entries: no key twice.
AttrMaps ==
    UNION { { m \in [1 .. n -> Texts(KeyChars, MaxKeyLen)
                                 \X Texts(ValueChars, MaxValueLen)] :
                \A i, j \in 1 .. n : m[i][1] = m[j][1] => i = j } :
            n \in 0 .. MaxAttrs }

\* key="value"
RenderEntry(e) == e[1] \o <<"=", DQ>> \o e[2] \o <<DQ>>

\* the entries rendered and joined with single spaces
RECURSIVE RenderMap(_)
RenderMap(entries) ==
    IF entries = <<>> THEN <<>>
    ELSE IF Len(entries) = 1 THEN RenderEntry(entries[1])
    ELSE RenderEntry(Head(entries)) \o <<" ">> \o RenderMap(Tail(entries))

\* \S+ at i, as long as it can be: the end of the run of non-space characters
RunEnd(text, i) ==
    CHOOSE e \in i .. Len(text) :
       /\ \A j \in i .. e : text[j] # " "
       /\ e = Len(text) \/ text[e + 1] = " "

\* The lengths of \S+ at i with which \S+="[^"]*" matches.
QuotedLens(text, i) ==
    {n \in 1 .. (RunEnd(text, i) - i + 1) :
       /\ i + n + 1 <= Len(text)
       /\ text[i + n] = "="
       /\ text[i + n + 1] = DQ
       /\ \E q \in (i + n + 2) .. Len(text) : text[q] = DQ}

\* Where the match of (\S+="[^"]*"|\S+) at the non-space character i ends:
\* \S+ is greedy and the first alternative is tried first.
TokenEnd(text, i) ==
    IF QuotedLens(text, i) # {}
    THEN LET n == CHOOSE x \in QuotedLens(text, i) :
                     \A y \in QuotedLens(text, i) : y <= x
         IN CHOOSE q \in (i + n + 2) .. Len(text) :
               /\ text[q] = DQ
               /\ \A j \in (i + n + 2) .. (q - 1) : text[j] # DQ
    ELSE RunEnd(text, i)

\* re.findall(r'(\S+="[^"]*"|\S+)', line), from position i on
RECURSIVE findall(_, _)
findall(text, i) ==
    IF i > Len(text) THEN <<>>
    ELSE IF text[i] = " " THEN findall(text, i + 1)
    ELSE <<SubSeq(text, i, TokenEnd(text, i))>>
            \o findall(text, TokenEnd(text, i) + 1)

\* value.strip('"')
RECURSIVE StripQuotes(_)
StripQuotes(value) ==
    IF value # <<>> /\ Head(value) = DQ THEN StripQuotes(Tail(value))
    ELSE IF value # <<>> /\ value[Len(value)] = DQ
    THEN StripQuotes(SubSeq(value, 1, Len(value) - 1))
    ELSE value

\* re.sub(r"\\(.)", r"\1", value)
RECURSIVE Unescape(_)
Unescape(value) ==
    IF value = <<>> THEN <<>>
    ELSE IF Head(value) = BS /\ Len(value) >= 2
    THEN <<value[2]>> \o Unescape(SubSeq(value, 3, Len(value)))
    ELSE <<Head(value)>> \o Unescape(Tail(value))

\* The body of "for token in tokens".
ParseToken(attrs, token) ==
    LET eqs == {i \in DOMAIN token : token[i] = "="}
    IN IF eqs = {} THEN attrs
       ELSE LET at == CHOOSE i \in eqs : \A j \in eqs : i <= j
                key == SubSeq(token, 1, at - 1)
                value == SubSeq(token, at + 1, Len(token))
            IN Put(attrs, key, Unescape(StripQuotes(value)))

\* The position of parse_attributes once `left` are the tokens left.
ParsePc(left) == IF left = <<>> THEN "parsed" ELSE "parse_tokens"

\* The line is written from the attribute map.
RenderLine ==
    /\ pc = "render"
    /\ parse_line' = RenderMap(attr_map)
    /\ pc' = "parse_start"
    /\ UNCHANGED <<inputVars, syncVars, runVars, wylVars, attr_map, tokens,
                   attributes, export_lines, output, extracted, log, exit_code>>

\* attributes = {}; tokens = re.findall(...)
parse_attributes ==
    /\ pc = "parse_start"
    /\ attributes' = EmptyMap
    /\ tokens' = findall(parse_line, 1)
    /\ pc' = ParsePc(tokens')
    /\ UNCHANGED <<inputVars, syncVars, runVars, wylVars, attr_map, parse_line,
                   export_lines, output, extracted, log, exit_code>>

\* One turn of "for token in tokens".
NextToken ==
    /\ pc = "parse_tokens"
    /\ attributes' = ParseToken(attributes, Head(tokens))
    /\ tokens' = Tail(tokens)
    /\ pc' = ParsePc(Tail(tokens))
    /\ UNCHANGED <<inputVars, syncVars, runVars, wylVars, attr_map, parse_line,
                   export_lines, output, extracted, log, exit_code>>

\* No run of main is being followed.
NoRun ==
    /\ master_router = NoRouter
    /\ master = EmptyMap
    /\ router = NoRouter
    /\ slave_host = None
    /\ slaves = <<>>
    /\ wyl = <<>>
    /\ wyl_targets = <<>>
    /\ wyl_runs = <<>>

InitParse ==
    /\ attr_map \in AttrMaps
    /\ parse_line = <<>>
    /\ tokens = <<>>
    /\ attributes = EmptyMap
    /\ pc = "render"
    /\ NoRun
    /\ Idle
    /\ NoExtract

NextParse ==
    \/ RenderLine
    \/ parse_attributes
    \/ NextToken

SpecParse == InitParse /\ [][NextParse]_vars

(***************************************************************************)
(* get_dhcp_reservations line by line, on the lines of an export in any    *)
(* order.                                                                  *)
(***************************************************************************)
MaxLines == 3

\* The lines an export may hold: a server's declaration, and lease
\* declarations with or without address and server.
ExportLines ==
    {ServerLine(n) : n \in Servers}
       \cup LeaseLines(Addresses \cup {NoAddress}, {"AA:BB"}, Comments)

\* output = ssh_command(client, command); reservations = {}
ExtractStart ==
    /\ pc = "extract_start"
    /\ output' = export_lines
    /\ extracted' = EmptyMap
    /\ pc' = IF export_lines = <<>> THEN "extracted" ELSE "extract_lines"
    /\ UNCHANGED <<inputVars, syncVars, runVars, wylVars, attr_map, parse_line,
                   tokens, attributes, export_lines, log, exit_code>>

\* One turn of "for line in output.splitlines()".
ExtractNext ==
    /\ pc = "extract_lines"
    /\ extracted' = ExtractLine(extracted, Head(output))
    /\ output' = Tail(output)
    /\ pc' = IF Tail(output) = <<>> THEN "extracted" ELSE "extract_lines"
    /\ UNCHANGED <<inputVars, syncVars, runVars, wylVars, attr_map, parse_line,
                   tokens, attributes, export_lines, log, exit_code>>

InitExtract ==
    /\ export_lines \in UNION {[1 .. n -> ExportLines] : n \in 0 .. MaxLines}
    /\ output = <<>>
    /\ extracted = EmptyMap
    /\ pc = "extract_start"
    /\ NoRun
    /\ Idle
    /\ NoParse

NextExtract ==
    \/ ExtractStart
    \/ ExtractNext

SpecExtract == InitExtract /\ [][NextExtract]_vars

(***************************************************************************)
(* sync_reservations once, on exports whose leases may lack mac-address.   *)
(***************************************************************************)
ShapeMacs == {"AA:BB", NoMac}

InitShapes ==
    /\ master_router \in RouterStates(Addresses, ShapeMacs, {""}, MaxLeases)
    /\ master = get_dhcp_reservations(master_router)
    /\ router \in RouterStates(Addresses, ShapeMacs, {""}, MaxLeases)
    /\ slave_host = SlaveHosts[1]
    /\ pc = "sync_start"
    /\ wyl = <<>>
    /\ slaves = <<SlaveHosts[1]>>
    /\ wyl_targets = <<>>
    /\ wyl_runs = <<>>
    /\ Idle
    /\ NoParse
    /\ NoExtract

NextShapes ==
    \/ SyncStart({"ok"})
    \/ SyncServer
    \/ SyncLease({"ok"})

SpecShapes == InitShapes /\ [][NextShapes]_vars

(***************************************************************************)
(* Properties                                                              *)
(***************************************************************************)
Range(f) == {f[i] : i \in DOMAIN f}

\* The slave's leases of a scope, as sync_reservations sees them.
SlaveScope(srv) ==
    IF srv \in DOMAIN slave_reservations THEN slave_reservations[srv]
    ELSE EmptyMap

\* Some inner iteration of the current call has run.
Iterated == lastIter.ip # None

\* C1: reconciling the same master a second time, after the slave has run
\* every command of the first call in the order they were sent, sends no
\* command.
C1_ConvergesInOnePass == pass = 2 => sent = <<>>

\* C2: for a master lease whose address the slave's scope does not hold while
\* another address of that scope holds its MAC, the commands sent are exactly
\* the remove matching on mac-address (with the scope's server clause, none
\* for the scope "") and then the add of the master's raw: no remove matches
\* on an address.
Collides(srv, ip) ==
    /\ ip \notin DOMAIN SlaveScope(srv)
    /\ \E other \in DOMAIN SlaveScope(srv) :
          other # ip /\ SlaveScope(srv)[other].mac = master[srv][ip].mac

C2_CollisionResolution ==
    (Iterated /\ Collides(lastIter.server, lastIter.ip)) =>
        lastIter.issued =
            << [op |-> "remove",
                server |-> IF lastIter.server = "" THEN NoClause
                           ELSE lastIter.server,
                key |-> "mac-address",
                val |-> master[lastIter.server][lastIter.ip].mac],
               [op |-> "add", raw |-> master[lastIter.server][lastIter.ip]] >>

C2_Witness ==
    /\ Iterated
    /\ Collides(lastIter.server, lastIter.ip)
    /\ lastIter.server \in Servers
    /\ Len(lastIter.issued) = 2

\* C3: a named scope of the master that the slave does not have gets no
\* command on that slave and is recorded in missing_servers for it; the outer
\* loop still reaches every other scope, every later slave is still
\* reconciled, and the run ends with exit code 2.
InSync == pc \in {"sync_scopes", "sync_leases", "sync_done"}

AbsentScopes ==
    {s \in DOMAIN master : s # "" /\ s \notin DOMAIN slave_reservations}

Concerns(cmd, srv) ==
    IF cmd.op = "add" THEN cmd.raw.server = srv ELSE cmd.server = srv

RecordedMissing(host, srv) ==
    /\ host \in DOMAIN missing_servers
    /\ srv \in Range(missing_servers[host])

C3_MissingScopeAdvisory ==
    /\ InSync =>
         \A s \in AbsentScopes :
            /\ \A i \in DOMAIN sent : ~Concerns(sent[i], s)
            /\ s \notin scopesLeft => RecordedMissing(slave_host, s)
    /\ pc = "sync_done" => (scopesLeft = {} /\ ipsLeft = {})
    /\ (pc = "exited" /\ DOMAIN missing_servers # {}) =>
         (exit_code = {2} /\ synced = Range(slaves))

C3_Witness ==
    /\ pc = "exited"
    /\ exit_code = {2}
    /\ RecordedMissing(SlaveHosts[1], "dhcp1")
    /\ SlaveHosts[1] \in synced
    /\ SlaveHosts[2] \in synced
    /\ SlaveHosts[2] \notin DOMAIN missing_servers
    /\ MasterLeases(master) # {}

\* C4: the second of two consecutive sync_watchyourlan calls, every call of
\* the first having reached the service, issues no toggle.
IsToggle(call) == call.kind \in {"MarkKnown", "UnmarkKnown"}

C4_ToggleIdempotence ==
    pass = 2 => \A i \in DOMAIN wyl_calls : ~IsToggle(wyl_calls[i])

\* C5: a MarkKnown toggle is issued only while the service holds the host as
\* not known, an UnmarkKnown toggle only while it holds it as known.
C5_ToggleGating ==
    \A i \in DOMAIN wyl_calls :
       /\ wyl_calls[i].kind = "MarkKnown" => ~wyl_calls[i].known
       /\ wyl_calls[i].kind = "UnmarkKnown" => wyl_calls[i].known

\* C6: once the master's export has been read and holds no lease, the run
\* has ended with exit code 1, no slave connected to and no command sent.
MasterRead == pc \notin {"main_start", "master_fetch"}

C6_NoReservationsIsFatal ==
    (MasterRead /\ MasterLeases(master) = {}) =>
        /\ pc = "exited"
        /\ exit_code = {1}
        /\ open \cap Range(slaves) = {}
        /\ synced = {}

\* C7 as stated: a failed connection to a slave does not end the run with
\* exit code 1, and the run ends with every later slave reconciled.
LaterSlaves == {slaves[i] : i \in (slave_idx + 1) .. Len(slaves)}

C7_SlaveConnectRecoverable ==
    "connect_slave_failed" \in log =>
        /\ ~(pc = "exited" /\ exit_code = {1})
        /\ pc = "exited" => LaterSlaves \subseteq synced

\* C7 as amended: a failed connection to a slave is logged and ends the run
\* at once with exit code 1; that slave and every later one are neither
\* connected to nor reconciled, and WatchYourLAN is not synchronised.
C7_SlaveConnectFatal ==
    "connect_slave_failed" \in log =>
        /\ pc = "exited"
        /\ exit_code = {1}
        /\ \A i \in DOMAIN slaves :
              i >= slave_idx => (slaves[i] \notin synced /\ slaves[i] \notin open)
        /\ wyl_runs = <<>>

C7_Witness ==
    /\ "connect_slave_failed" \in log
    /\ slave_idx = 2
    /\ SlaveHosts[1] \in synced

\* C8 as stated: whatever the outcome of a command, every command of the
\* iteration is sent, once, and the run goes on.
Failed(outs) == \E i \in DOMAIN outs : outs[i] # "ok"

C8_CommandFailuresIndependent ==
    Iterated =>
        /\ lastIter.issued = lastIter.cmds
        /\ Failed(lastIter.outs) => pc # "exited"

\* C8 as amended: a command the router refuses (a non-empty error stream) is
\* logged, not sent again, and every later command of the iteration is sent
\* and the run goes on; a command on which exec_command raises is logged and
\* ends the run at once with exit code 1, no later command being sent.
RaisedAt(outs) == {i \in DOMAIN outs : outs[i] = "exception"}

C8_CommandFailures ==
    Iterated =>
        /\ lastIter.issued = SubSeq(lastIter.cmds, 1, Len(lastIter.issued))
        /\ Len(lastIter.outs) = Len(lastIter.issued)
        /\ IF RaisedAt(lastIter.outs) = {}
           THEN /\ lastIter.issued = lastIter.cmds
                /\ pc # "exited"
                /\ Failed(lastIter.outs) => "ssh_stderr" \in log
           ELSE /\ RaisedAt(lastIter.outs) = {Len(lastIter.issued)}
                /\ pc = "exited"
                /\ exit_code = {1}
                /\ "ssh_exception" \in log

C8_Witness ==
    /\ Iterated
    /\ Len(lastIter.outs) >= 2
    /\ lastIter.outs[1] = "stderr"
    /\ lastIter.issued = lastIter.cmds
    /\ pc \in {"sync_scopes", "sync_leases", "sync_done"}

\* C9: WatchYourLAN is synchronised only after every slave has been
\* reconciled and only when no scope is missing, once per target; and the
\* run ends with exit code 0 exactly when the master had reservations, every
\* session was established and no scope was missing.
SessionsEstablished ==
    /\ "connect_master_failed" \notin log
    /\ Range(slaves) \subseteq synced \cup open

C9_RunOutcome ==
    /\ (\E i \in DOMAIN wyl_runs : wyl_runs[i] > 0) =>
          (synced = Range(slaves) /\ DOMAIN missing_servers = {})
    /\ \A i \in DOMAIN wyl_runs : wyl_runs[i] <= 1
    /\ (pc = "exited" /\ exit_code = {0}) =>
          \A i \in DOMAIN wyl_runs : wyl_runs[i] = 1
    /\ pc = "exited" =>
          (exit_code = {0} <=>
             (/\ MasterLeases(master) # {}
              /\ SessionsEstablished
              /\ DOMAIN missing_servers = {}))

\* C10: a WatchYourLAN call that fails, or a host without its ID, costs only
\* that one update: the toggle of a host is still issued when its rename has
\* failed, and the run still ends with exit code 0.
WylReached == \E i \in DOMAIN wyl_runs : wyl_runs[i] > 0

C10_WylFailuresIsolated ==
    /\ (pc = "exited" /\ WylReached) => exit_code = {0}
    /\ \A i \in DOMAIN wyl_calls :
          (/\ wyl_calls[i].kind = "Rename"
           /\ wyl_calls[i].out = "exception"
           /\ ~wyl_calls[i].known)
          => /\ i < Len(wyl_calls)
             /\ wyl_calls[i + 1].kind = "MarkKnown"
             /\ wyl_calls[i + 1].id = wyl_calls[i].id

\* C11: a master lease without server is compared with the slave's leases
\* without server only (none when the slave has none, and never a
\* missing-scope record): its commands are those the slave's un-scoped
\* leases call for, and each of its removes has no server clause; each remove
\* of a named scope S has the clause server="S".
Removes(cmds) == {cmds[i] : i \in {j \in DOMAIN cmds : cmds[j].op = "remove"}}

Unscoped(leases) == {l \in leases : l.server = NoServer}

HasAdd(cmds) == \E i \in DOMAIN cmds : cmds[i].op = "add"

C11_EmptyScope ==
    /\ (InSync /\ sent = <<>>) =>
          Range(SlaveScope(NoServer)) = Unscoped(router.leases)
    /\ InSync =>
          \A h \in DOMAIN missing_servers :
             NoServer \notin Range(missing_servers[h])
    /\ Iterated =>
          /\ \A c \in Removes(lastIter.cmds) :
                c.server = (IF lastIter.server = NoServer THEN NoClause
                            ELSE lastIter.server)
          /\ lastIter.server = NoServer =>
                LET m == master[NoServer][lastIter.ip]
                    mine == Range(SlaveScope(NoServer))
                IN /\ HasAdd(lastIter.cmds) <=> m \notin mine
                   /\ (\E c \in Removes(lastIter.cmds) : c.key = "mac-address")
                        <=> (m \notin mine /\ \E l \in mine : l.mac = m.mac)
                   /\ (\E c \in Removes(lastIter.cmds) : c.key = "address")
                        <=> (m \notin mine /\ \E l \in mine : l.address = m.address)

C11_Witness ==
    /\ Iterated
    /\ lastIter.server = NoServer
    /\ NoServer \notin DOMAIN slave_reservations
    /\ "dhcp1" \in DOMAIN slave_reservations
    /\ HasAdd(lastIter.issued)
    /\ \E i \in DOMAIN sent : sent[i].op = "remove" /\ sent[i].server = "dhcp1"

\* C12: at most one client is connected at any point of a run, and none is
\* left connected when the run has ended.
C12_OneSessionAtATime ==
    /\ Cardinality(open) <= 1
    /\ pc = "exited" => open = {}

\* C13 as stated: whatever the keys and values without a double quote,
\* parse_attributes on the rendered map gives the map back.
AsDict(entries) ==
    [k \in {entries[i][1] : i \in DOMAIN entries} |->
        (CHOOSE e \in Range(entries) : e[1] = k)[2]]

C13_RoundTrip == pc = "parsed" => attributes = AsDict(attr_map)

\* C14: the remove matching on mac-address is among the commands of a master
\* lease at ip only if the slave's scope holds the lease's MAC at an address
\* other than ip; when that MAC is only at ip on the slave, with another
\* raw, the commands are exactly the remove matching on address=ip and the
\* add.
MacElsewhere(srv, ip) ==
    \E other \in DOMAIN SlaveScope(srv) :
       other # ip /\ SlaveScope(srv)[other].mac = master[srv][ip].mac

C14_MacRemoveOnlyOnConflict ==
    Iterated =>
       LET srv == lastIter.server
           ip == lastIter.ip
       IN /\ (\E c \in Removes(lastIter.cmds) : c.key = "mac-address")
                => MacElsewhere(srv, ip)
          /\ (/\ ip \in DOMAIN SlaveScope(srv)
              /\ SlaveScope(srv)[ip] # master[srv][ip]
              /\ SlaveScope(srv)[ip].mac = master[srv][ip].mac
              /\ ~MacElsewhere(srv, ip))
             => lastIter.cmds =
                   << [op |-> "remove",
                       server |-> IF srv = NoServer THEN NoClause ELSE srv,
                       key |-> "address", val |-> ip],
                      [op |-> "add", raw |-> master[srv][ip]] >>

\* The router after the commands, run in order.
RECURSIVE ApplyAll(_, _)
ApplyAll(r, cmds) ==
    IF cmds = <<>> THEN r ELSE ApplyAll(RouterExec(r, Head(cmds)), Tail(cmds))

\* The add finds no lease of its scope with its address or its MAC.
AddIsClean(r, add) ==
    \A l \in r.leases :
       l.server = add.raw.server =>
          (l.address # add.raw.address /\ l.mac # add.raw.mac)

\* No two leases of one scope with the same address or the same MAC.
NoDuplicates(r) ==
    \A l1, l2 \in r.leases :
       (l1 # l2 /\ l1.server = l2.server) =>
          (l1.address # l2.address /\ l1.mac # l2.mac)

\* In a step that sends `issued` to the router `r`: every add is clean when
\* it is run, and no command brings duplicates to a router without any.
CleanAdds(r, issued) ==
    \A i \in DOMAIN issued :
       LET before == ApplyAll(r, SubSeq(issued, 1, i - 1))
       IN /\ issued[i].op = "add" => AddIsClean(before, issued[i])
          /\ NoDuplicates(before) => NoDuplicates(RouterExec(before, issued[i]))

\* C15 as stated: for every master and slave, while the commands are run in
\* the order sent, each add finds no lease of its scope with its address or
\* its MAC, and the slave never comes to hold two leases of one scope with
\* the same address or the same MAC.
C15_RemoveBeforeAdd ==
    [][lastIter' # lastIter => CleanAdds(router, lastIter'.issued)]_vars

\* C15 as amended: the same, for a master that holds no MAC twice within
\* one scope.
MasterMacsDistinct ==
    \A s \in DOMAIN master : \A a, b \in DOMAIN master[s] :
       a # b => master[s][a].mac # master[s][b].mac

C15_RemoveBeforeAddDistinctMacs ==
    [][(lastIter' # lastIter /\ MasterMacsDistinct)
          => CleanAdds(router, lastIter'.issued)]_vars

C15_Witness ==
    /\ Iterated
    /\ MasterMacsDistinct
    /\ Len(lastIter.issued) = 3
    /\ lastIter.issued[3].op = "add"
    /\ lastIter.issued[3].raw \in router.leases
    /\ NoDuplicates(router)

\* C16: whatever the order of the lines of the export, every lease line with
\* an address is in the result under its scope and address, unless a later
\* lease line has the same scope and address; and every declared server is a
\* scope of the result.
IsLease(line) == line.kind = "lease" /\ line.address # NoAddress

Overwritten(lines, i) ==
    \E j \in (i + 1) .. Len(lines) :
       /\ IsLease(lines[j])
       /\ lines[j].server = lines[i].server
       /\ lines[j].address = lines[i].address

Kept(reservations, l) ==
    /\ l.server \in DOMAIN reservations
    /\ l.address \in DOMAIN reservations[l.server]
    /\ reservations[l.server][l.address] = l

C16_ExtractionKeepsEveryLease ==
    pc = "extracted" =>
       \A i \in DOMAIN export_lines :
          /\ (IsLease(export_lines[i]) /\ ~Overwritten(export_lines, i))
                => Kept(extracted, export_lines[i])
          /\ export_lines[i].kind = "server"
                => export_lines[i].name \in DOMAIN extracted

\* C17: the commands sent while one master scope is reconciled leave the
\* slave's leases of every other scope as they were, and when the call
\* returns every lease the slave held identical to the master's is still
\* there.
OtherScopes(r, srv) == {l \in r.leases : l.server # srv}

IdenticalKept ==
    \A s \in DOMAIN master : \A ip \in DOMAIN master[s] :
       (ip \in DOMAIN SlaveScope(s) /\ SlaveScope(s)[ip] = master[s][ip])
          => master[s][ip] \in router.leases

C17_ScopeIsolation ==
    [][lastIter' # lastIter =>
          /\ OtherScopes(router', lastIter'.server)
                = OtherScopes(router, lastIter'.server)
          /\ pc' = "sync_done" => IdenticalKept']_vars

\* C18: the second of two consecutive sync_watchyourlan calls, every call of
\* the first having reached the service, issues no rename.
C18_RenameConvergence ==
    pass = 2 => \A i \in DOMAIN wyl_calls : wyl_calls[i].kind # "Rename"

\* C19: whatever the leases of the master and the slave, with or without
\* mac-address, sync_reservations does not end the process, and it returns
\* with every master scope and every lease of the scopes on the slave gone
\* through.
C19_NeverAbortsOnShape ==
    /\ pc # "exited"
    /\ pc = "sync_done" => (scopesLeft = {} /\ ipsLeft = {})

====
